---- MODULE Spec2Model ----
(***************************************************************************)
(* Per-user daily rate limiting of the AI endpoints.                       *)
(*                                                                         *)
(*   app/services/rate_limiter.py   RateLimitService (_usage, _limit)      *)
(*   app/api/deps.py                check_ai_rate_limit (the gate)         *)
(*   app/api/v1/ai.py               summarize_thread, question_answer,     *)
(*                                  rewrite_text, moderate_content         *)
(*                                                                         *)
(* Spec     drives RateLimitService directly (its three public methods and *)
(*          the UTC clock read by _get_today_str).                         *)
(* SpecApi  drives it through the gated endpoints: a request passes the    *)
(*          gate, awaits the vendor chain and is charged by its handler.   *)
(* SpecApiForward  is SpecApi under a clock that only moves forward.        *)
(* SpecSeq  is SpecApi with one request handled at a time.                 *)
(* SpecWorkers  has two server processes, each with its own service.       *)
(* SpecAi   adds the image, video and music endpoints, which have no gate. *)
(***************************************************************************)
EXTENDS Integers, FiniteSets, Sequences, TLC

\* ------------------------------------------------------------------ bounds
MaxLimit == 2      \* settings.AI_DAILY_RATE_LIMIT ranges over 0..MaxLimit
MaxNow == 5        \* the clock ranges over the instants 0..MaxNow
MaxCount == 4      \* increment_usage is not driven past this stored count
MaxReqs == 2       \* requests awaiting their vendor chain at one time
MaxTimeout == 3    \* generate_video_sync: timeout_seconds ranges over 0..MaxTimeout
MaxInterval == 2   \* generate_video_sync: poll_interval ranges over 1..MaxInterval

\* Instants per UTC day: "%Y-%m-%d" drops the time of day, so TicksPerDay
\* consecutive instants format to the same date string.
TicksPerDay == 2

Users == {"a", "b"}
Instants == 0..MaxNow

\* the principals that send requests, and the gated endpoints they send them to
Callers == {"a"}
Endpoints == {"summarize", "qa", "rewrite", "moderate"}

\* ------------------------------------------------------- program constants
HTTP_200_OK == 200
HTTP_400_BAD_REQUEST == 400
HTTP_429_TOO_MANY_REQUESTS == 429
HTTP_500_INTERNAL_SERVER_ERROR == 500
HTTP_503_SERVICE_UNAVAILABLE == 503

VARIABLES
    limit,      \* RateLimitService._limit
    usage,      \* RateLimitService._usage: user_id -> <<date, count>>
    now,        \* datetime.now(timezone.utc), in instants
    call,       \* the direct call of a RateLimitService method just made, with
                \* its result (cleared when the clock moves)
    dayFixed,   \* history: _get_today_str has had one value since construction
    recorded,   \* history: increment_usage calls per user while dayFixed
    served,     \* history: 200 responses per user while dayFixed
    peer,       \* RateLimitService._usage of a second server process
    pending,    \* the admittedOn requests suspended in `await chain.ainvoke(...)`:
                \* how many there are of each <<user, endpoint>>
    last,       \* how the request that ended in the step just taken ended
    admittedOn,   \* history: the day on which the request of each <<user,
                \* endpoint>> admitted by Admit passed the gate
    operations, \* VideoService._operations: operation_id -> the stored operation
    poll,       \* the get_operation_status call just made, with its response
    sync,       \* the generate_video_sync call: its locals and where it stands
    delivered   \* history: the operation ids whose video a poll has returned

\* the state of RateLimitService and its callers, and that of VideoService
quota ==
    <<limit, usage, now, call, dayFixed, recorded, served, peer, pending, last,
      admittedOn>>
video == <<operations, poll, sync, delivered>>
vars == <<limit, usage, now, call, dayFixed, recorded, served, peer, pending, last,
          admittedOn, operations, poll, sync, delivered>>

\* --------------------------------------------------------------- helpers
Max(a, b) == IF a >= b THEN a ELSE b

\* self._usage[user_id] = record
Put(us, u, record) ==
    [v \in (DOMAIN us) \cup {u} |-> IF v = u THEN record ELSE us[v]]

\* RateLimitService._get_today_str: the UTC date of an instant
get_today_str(t) == t \div TicksPerDay

\* --------------------------------------------- RateLimitService, as mutated
check_limit_ignoring_date(us, t, lim, u) ==
    IF u \notin DOMAIN us THEN TRUE ELSE us[u][2] < lim

check_limit_inclusive(us, t, lim, u) ==
    LET today == get_today_str(t) IN
    IF u \notin DOMAIN us
    THEN TRUE
    ELSE IF us[u][1] # today THEN TRUE ELSE us[u][2] <= lim

check_limit_forward_only(us, t, lim, u) ==
    LET today == get_today_str(t) IN
    IF u \notin DOMAIN us
    THEN TRUE
    ELSE IF us[u][1] < today THEN TRUE ELSE us[u][2] < lim

increment_usage_keeping_count(us, t, u) ==
    LET today == get_today_str(t) IN
    IF u \notin DOMAIN us
    THEN Put(us, u, <<today, 1>>)
    ELSE Put(us, u, <<today, us[u][2] + 1>>)

increment_usage_dropping_others(us, t, u) ==
    LET today == get_today_str(t) IN
    IF u \in DOMAIN us /\ us[u][1] = today
    THEN Put(us, u, <<today, us[u][2] + 1>>)
    ELSE [v \in {u} |-> <<today, 1>>]

get_remaining_requests_unclamped(us, t, lim, u) ==
    LET today == get_today_str(t) IN
    IF u \notin DOMAIN us
    THEN lim
    ELSE IF us[u][1] # today THEN lim ELSE lim - us[u][2]

increment_usage_overwriting(us, t, u) ==
    Put(us, u, <<get_today_str(t), 1>>)

increment_usage_from_zero(us, t, u) ==
    LET today == get_today_str(t) IN
    IF u \in DOMAIN us /\ us[u][1] = today
    THEN Put(us, u, <<today, us[u][2] + 1>>)
    ELSE Put(us, u, <<today, 0>>)

increment_usage_refusing(us, t, u) ==
    LET today == get_today_str(t) IN
    IF u \in DOMAIN us /\ us[u][1] = today /\ us[u][2] >= limit
    THEN us
    ELSE IF u \in DOMAIN us /\ us[u][1] = today
    THEN Put(us, u, <<today, us[u][2] + 1>>)
    ELSE Put(us, u, <<today, 1>>)

\* ------------------------------------------------------- RateLimitService
\* RateLimitService.check_limit
check_limit(us, t, lim, u) ==
    LET today == get_today_str(t) IN
    IF u \notin DOMAIN us
    THEN TRUE
    ELSE LET last_date == us[u][1]
             count == us[u][2]
         IN  IF last_date # today THEN TRUE ELSE count < lim

\* RateLimitService.increment_usage: the value of _usage after the call
increment_usage(us, t, u) ==
    LET today == get_today_str(t) IN
    IF u \notin DOMAIN us
    THEN Put(us, u, <<today, 1>>)
    ELSE LET last_date == us[u][1]
             count == us[u][2]
         IN  IF last_date # today
             THEN Put(us, u, <<today, 1>>)
             ELSE Put(us, u, <<today, count + 1>>)

\* RateLimitService.get_remaining_requests
get_remaining_requests(us, t, lim, u) ==
    LET today == get_today_str(t) IN
    IF u \notin DOMAIN us
    THEN lim
    ELSE LET last_date == us[u][1]
             count == us[u][2]
         IN  IF last_date # today THEN lim ELSE Max(0, lim - count)

\* increment_usage is driven only while the stored same-day count is below MaxCount
CanIncrement(u) ==
    (u \in DOMAIN usage /\ usage[u][1] = get_today_str(now)) => usage[u][2] < MaxCount

\* history: one more increment_usage(u) while the day has stayed the same
Recorded(u) ==
    IF dayFixed THEN [recorded EXCEPT ![u] = @ + 1] ELSE recorded

\* history: one more 200 response to u while the day has stayed the same
Served(u) ==
    IF dayFixed THEN [served EXCEPT ![u] = @ + 1] ELSE served

\* the entry of a user who has none, as `call` reports it
NoEntry == <<-1, 0>>
EntryOf(us, u) == IF u \in DOMAIN us THEN us[u] ELSE NoEntry

\* RateLimitService.__init__: self._usage = {}
EmptyUsage == [u \in {} |-> NoEntry]

NoCall ==
    [op |-> "none", user |-> "none", allowed |-> FALSE, remaining |-> 0,
     prior |-> NoEntry]
NoPending == [d \in Callers \X Endpoints |-> 0]
NoResponse == [cause |-> "none", status |-> 0, vendor |-> FALSE, charged |-> 0]

\* VideoService.__init__ with an API key, no operation started yet
NoOperations == [id \in {} |-> "started"]
NoPoll ==
    [id |-> "none", found |-> FALSE, vendor |-> FALSE, done |-> FALSE,
     status |-> "none", error |-> "none", video |-> "none"]
NoSync ==
    [pc |-> "idle", id |-> "none", timeout |-> 0, interval |-> 0, elapsed |-> 0,
     polls |-> 0]
VideoIdle ==
    /\ operations = NoOperations
    /\ poll = NoPoll
    /\ sync = NoSync
    /\ delivered = {}

\* the shape of the state: _usage maps some users to (date, count) tuples
TypeOK ==
    /\ limit \in 0..MaxLimit
    /\ now \in Instants
    /\ DOMAIN usage \subseteq Users
    /\ \A u \in DOMAIN usage :
        /\ usage[u][1] \in {get_today_str(t) : t \in Instants}
        /\ usage[u][2] \in 0..MaxCount
    /\ call.op \in {"none", "check_limit", "increment_usage", "get_remaining_requests"}
    /\ dayFixed \in BOOLEAN
    /\ recorded \in [Users -> Nat]
    /\ served \in [Users -> Nat]
    /\ DOMAIN peer \subseteq Users
    /\ pending \in [Callers \X Endpoints -> 0..MaxReqs]
    /\ last.status \in {0, HTTP_200_OK, HTTP_400_BAD_REQUEST,
                        HTTP_429_TOO_MANY_REQUESTS, HTTP_500_INTERNAL_SERVER_ERROR,
                        HTTP_503_SERVICE_UNAVAILABLE}
    /\ admittedOn \in [Callers \X Endpoints -> {-1} \cup {get_today_str(t) : t \in Instants}]
    /\ DOMAIN operations \subseteq {"op1", "op2"}
    /\ \A id \in DOMAIN operations : operations[id] \in {"started", "running", "done"}
    /\ poll.status \in {"none", "PROCESSING", "COMPLETED", "FAILED"}
    /\ sync.pc \in {"idle", "start_failed", "sleeping", "returned", "raised", "timed_out"}
    /\ sync.elapsed \in Nat
    /\ sync.polls \in Nat
    /\ delivered \subseteq {"op1", "op2"}

\* RateLimitService.__init__, with the clock at any instant
Init ==
    /\ limit \in 0..MaxLimit
    /\ usage = EmptyUsage
    /\ now \in Instants
    /\ call = NoCall
    /\ dayFixed = TRUE
    /\ recorded = [u \in Users |-> 0]
    /\ served = [u \in Users |-> 0]
    /\ peer = EmptyUsage
    /\ pending = NoPending
    /\ last = NoResponse
    /\ admittedOn = [d \in Callers \X Endpoints |-> -1]
    /\ VideoIdle

\* ------------------------------------------------------------ the clock
ClockToEvicting(t) ==
    /\ now' = t
    /\ dayFixed' = (dayFixed /\ get_today_str(t) = get_today_str(now))
    /\ recorded' = IF dayFixed' THEN recorded ELSE [u \in Users |-> 0]
    /\ served' = IF dayFixed' THEN served ELSE [u \in Users |-> 0]
    /\ call' = NoCall
    /\ last' = NoResponse
    /\ usage' = [u \in {v \in DOMAIN usage : usage[v][1] = get_today_str(t)}
                    |-> usage[u]]
    /\ UNCHANGED <<video, admittedOn, limit, peer, pending>>

ClockTo(t) ==
    /\ now' = t
    /\ dayFixed' = (dayFixed /\ get_today_str(t) = get_today_str(now))
    /\ recorded' = IF dayFixed' THEN recorded ELSE [u \in Users |-> 0]
    /\ served' = IF dayFixed' THEN served ELSE [u \in Users |-> 0]
    /\ call' = NoCall
    /\ last' = NoResponse
    /\ UNCHANGED <<video, admittedOn, limit, usage, peer, pending>>

\* time passes
ClockAdvance ==
    /\ now < MaxNow
    /\ ClockTo(now + 1)

\* the host clock is corrected backward
ClockBackward ==
    /\ now > 0
    /\ ClockTo(now - 1)

\* ------------------------------------------ direct calls of the service
CheckLimitRecording(u) ==
    /\ call' = [op |-> "check_limit", user |-> u,
                allowed |-> check_limit(usage, now, limit, u), remaining |-> 0,
                prior |-> NoEntry]
    /\ usage' = IF u \in DOMAIN usage
                THEN usage
                ELSE Put(usage, u, <<get_today_str(now), 0>>)
    /\ UNCHANGED <<video, admittedOn, limit, now, dayFixed, recorded, served, peer, pending, last>>

CheckLimit(u) ==
    /\ call' = [op |-> "check_limit", user |-> u,
                allowed |-> check_limit(usage, now, limit, u), remaining |-> 0,
                prior |-> NoEntry]
    /\ UNCHANGED <<video, admittedOn, limit, usage, now, dayFixed, recorded, served, peer, pending, last>>

IncrementUsage(u) ==
    /\ CanIncrement(u)
    /\ usage' = increment_usage(usage, now, u)
    /\ recorded' = Recorded(u)
    /\ call' = [op |-> "increment_usage", user |-> u, allowed |-> FALSE,
                remaining |-> 0, prior |-> EntryOf(usage, u)]
    /\ UNCHANGED <<video, admittedOn, limit, now, dayFixed, served, peer, pending, last>>

GetRemainingRequests(u) ==
    /\ call' = [op |-> "get_remaining_requests", user |-> u, allowed |-> FALSE,
                remaining |-> get_remaining_requests(usage, now, limit, u),
                prior |-> NoEntry]
    /\ UNCHANGED <<video, admittedOn, limit, usage, now, dayFixed, recorded, served, peer, pending, last>>

Next ==
    \/ \E u \in Users : CheckLimit(u)
    \/ \E u \in Users : IncrementUsage(u)
    \/ \E u \in Users : GetRemainingRequests(u)
    \/ ClockAdvance
    \/ ClockBackward

Spec == Init /\ [][Next]_vars

\* ------------------------------------------------- the gated AI endpoints
\* Each endpoint of app/api/v1/ai.py depends on check_ai_rate_limit and runs
\*     validate; chain = create_..._chain(); result = await chain.ainvoke(...)
\*     text = result.get("text", ""); (moderate: parse it)
\*     rate_limit_service.increment_usage(uid); return ...Response(...)
\* inside  try ... except HTTPException: raise / except Exception: raise 500.
\* The only suspension point of a handler is the await of the vendor chain.

InFlight ==
    LET D == Callers \X Endpoints
        Sum[S \in SUBSET D] ==
            IF S = {} THEN 0
            ELSE LET d == CHOOSE x \in S : TRUE IN pending[d] + Sum[S \ {d}]
    IN  Sum[D]

\* what the handler meets before it awaits the chain
Inputs(e) ==
    {"valid", "too_long", "chain_error"}
        \cup (IF e = "rewrite" THEN {"bad_mode"} ELSE {})

\* the status the handler raises before the vendor call, 0 when it makes the call
BeforeVendor(e, input) ==
    CASE input = "too_long" -> HTTP_400_BAD_REQUEST
      [] input = "bad_mode" -> HTTP_400_BAD_REQUEST
      [] input = "chain_error" -> HTTP_500_INTERNAL_SERVER_ERROR
      [] OTHER -> 0

\* what the awaited chain hands back: it raises, or returns a "text" that is
\* empty, (moderate) not parseable, (moderate) parseable JSON whose reason_tags
\* or explanation do not fit ModerationResponse, or good
Outcomes(e) ==
    {"raises", "empty", "ok"}
        \cup (IF e = "moderate" THEN {"unparseable", "bad_fields"} ELSE {})

\* the handler after the await: whether it reaches increment_usage, and the
\* status it ends with
AfterVendor(e, out) ==
    CASE out = "raises" -> [charge |-> FALSE, status |-> HTTP_500_INTERNAL_SERVER_ERROR]
      [] out = "empty" -> [charge |-> FALSE, status |-> HTTP_500_INTERNAL_SERVER_ERROR]
      [] out = "unparseable" ->
            [charge |-> FALSE, status |-> HTTP_500_INTERNAL_SERVER_ERROR]
      [] out = "bad_fields" ->
            [charge |-> TRUE, status |-> HTTP_500_INTERNAL_SERVER_ERROR]
      [] OTHER -> [charge |-> TRUE, status |-> HTTP_200_OK]

\* check_ai_rate_limit: `not service.check_limit(user_id)`
Denied(u) == ~check_limit(usage, now, limit, u)

RejectCharging(u) ==
    /\ CanIncrement(u)
    /\ usage' = increment_usage(usage, now, u)
    /\ recorded' = Recorded(u)
    /\ last' = [cause |-> "rate_limited", status |-> HTTP_429_TOO_MANY_REQUESTS,
                vendor |-> FALSE, charged |-> 1]
    /\ UNCHANGED <<video, admittedOn, limit, now, call, dayFixed, served, peer, pending>>

RejectAsServerError(u) ==
    /\ last' = [cause |-> "rate_limited", status |-> HTTP_500_INTERNAL_SERVER_ERROR,
                vendor |-> FALSE, charged |-> 0]
    /\ UNCHANGED <<video, admittedOn, limit, usage, now, call, dayFixed, recorded, served, peer, pending>>

\* check_ai_rate_limit raises HTTPException(429): the handler never runs
Reject(u) ==
    /\ last' = [cause |-> "rate_limited", status |-> HTTP_429_TOO_MANY_REQUESTS,
                vendor |-> FALSE, charged |-> 0]
    /\ UNCHANGED <<video, admittedOn, limit, usage, now, call, dayFixed, recorded, served, peer, pending>>

\* the handler runs up to its await: it raises, or calls the vendor chain and
\* is suspended
Start(u, e, input) ==
    /\ IF BeforeVendor(e, input) # 0
       THEN /\ last' = [cause |-> input, status |-> BeforeVendor(e, input),
                        vendor |-> FALSE, charged |-> 0]
            /\ pending' = pending
       ELSE /\ last' = NoResponse
            /\ pending' = [pending EXCEPT ![<<u, e>>] = @ + 1]
    /\ UNCHANGED <<video, admittedOn, limit, usage, now, call, dayFixed, recorded, served, peer>>

RequestOneMore(u, e, input) ==
    /\ InFlight <= MaxReqs
    /\ IF Denied(u) THEN Reject(u) ELSE Start(u, e, input)

\* a request of u for endpoint e arrives: the gate, then the handler up to its await
Request(u, e, input) ==
    /\ InFlight < MaxReqs
    /\ IF Denied(u) THEN Reject(u) ELSE Start(u, e, input)

VendorReturnChargingTwice(u, e, out) ==
    LET after == AfterVendor(e, out) IN
    /\ pending[<<u, e>>] > 0
    /\ after.charge => CanIncrement(u)
    /\ pending' = [pending EXCEPT ![<<u, e>>] = @ - 1]
    /\ usage' = IF after.charge
                THEN increment_usage(increment_usage(usage, now, u), now, u)
                ELSE usage
    /\ recorded' = IF after.charge THEN Recorded(u) ELSE recorded
    /\ served' = IF after.status = HTTP_200_OK THEN Served(u) ELSE served
    /\ last' = [cause |-> out, status |-> after.status, vendor |-> TRUE,
                charged |-> IF after.charge THEN 1 ELSE 0]
    /\ UNCHANGED <<video, admittedOn, limit, now, call, dayFixed, peer>>

\* the chain of a suspended request hands back `out`: the rest of the handler
VendorReturn(u, e, out) ==
    LET after == AfterVendor(e, out) IN
    /\ pending[<<u, e>>] > 0
    /\ after.charge => CanIncrement(u)
    /\ pending' = [pending EXCEPT ![<<u, e>>] = @ - 1]
    /\ usage' = IF after.charge THEN increment_usage(usage, now, u) ELSE usage
    /\ recorded' = IF after.charge THEN Recorded(u) ELSE recorded
    /\ served' = IF after.status = HTTP_200_OK THEN Served(u) ELSE served
    /\ last' = [cause |-> out, status |-> after.status, vendor |-> TRUE,
                charged |-> IF after.charge THEN 1 ELSE 0]
    /\ UNCHANGED <<video, admittedOn, limit, now, call, dayFixed, peer>>

\* a suspended request is cancelled (the client went away): CancelledError is
\* no Exception, the handler unwinds and no response is sent
Cancel(u, e) ==
    /\ pending[<<u, e>>] > 0
    /\ pending' = [pending EXCEPT ![<<u, e>>] = @ - 1]
    /\ last' = [cause |-> "cancelled", status |-> 0, vendor |-> TRUE, charged |-> 0]
    /\ UNCHANGED <<video, admittedOn, limit, usage, now, call, dayFixed, recorded, served, peer>>

NextApi ==
    \/ \E u \in Callers, e \in Endpoints : \E input \in Inputs(e) : Request(u, e, input)
    \/ \E u \in Callers, e \in Endpoints : \E out \in Outcomes(e) : VendorReturn(u, e, out)
    \/ \E u \in Callers, e \in Endpoints : Cancel(u, e)
    \/ ClockAdvance
    \/ ClockBackward

SpecApi == Init /\ [][NextApi]_vars

\* the gated endpoints under a clock that only moves forward
NextApiForward ==
    \/ \E u \in Callers, e \in Endpoints : \E input \in Inputs(e) : Request(u, e, input)
    \/ \E u \in Callers, e \in Endpoints : \E out \in Outcomes(e) : VendorReturn(u, e, out)
    \/ \E u \in Callers, e \in Endpoints : Cancel(u, e)
    \/ ClockAdvance

SpecApiForward == Init /\ [][NextApiForward]_vars

\* ------------------------------------- requests across a change of day
\* a valid request of u for endpoint e passes the gate and is suspended at its
\* vendor call, while no other request of u for e is; the day is remembered
Admit(u, e) ==
    /\ InFlight < MaxReqs
    /\ pending[<<u, e>>] = 0
    /\ ~Denied(u)
    /\ pending' = [pending EXCEPT ![<<u, e>>] = 1]
    /\ admittedOn' = [admittedOn EXCEPT ![<<u, e>>] = get_today_str(now)]
    /\ last' = NoResponse
    /\ UNCHANGED <<video, limit, usage, now, call, dayFixed, recorded, served, peer>>

\* the endpoints whose requests are followed across the change of day
Followed == {"summarize", "qa"}

NextRollover ==
    \/ \E u \in Callers, e \in Followed : Admit(u, e)
    \/ \E u \in Callers, e \in Followed : \E out \in Outcomes(e) : VendorReturn(u, e, out)
    \/ \E u \in Callers, e \in Followed : Cancel(u, e)
    \/ ClockAdvance

SpecRollover == Init /\ [][NextRollover]_vars

\* ------------------------------------------ requests one after another
\* a request arrives only when no other request is being handled
SeqRequest(u, e, input) ==
    /\ InFlight = 0
    /\ Request(u, e, input)

NextSeq ==
    \/ \E u \in Callers, e \in Endpoints : \E input \in Inputs(e) : SeqRequest(u, e, input)
    \/ \E u \in Callers, e \in Endpoints : \E out \in Outcomes(e) : VendorReturn(u, e, out)
    \/ \E u \in Callers, e \in Endpoints : Cancel(u, e)
    \/ ClockAdvance
    \/ ClockBackward

SpecSeq == Init /\ [][NextSeq]_vars

\* --------------------------------------------------- two server processes
\* get_rate_limit_service is cached per process (lru_cache), so every process
\* constructs its own RateLimitService: `usage` is the map of process 1 and
\* `peer` the map of process 2. Both read the same limit from the settings and
\* the same UTC clock.
Workers == {1, 2}
UsageOf(p) == IF p = 1 THEN usage ELSE peer

\* the response of a request handled from its gate to its end by a process
\* whose gate admittedOn it or not
ResponseOf(admitted, e, input, out) ==
    IF ~admitted
    THEN [cause |-> "rate_limited", status |-> HTTP_429_TOO_MANY_REQUESTS,
          vendor |-> FALSE, charged |-> 0]
    ELSE IF BeforeVendor(e, input) # 0
    THEN [cause |-> input, status |-> BeforeVendor(e, input),
          vendor |-> FALSE, charged |-> 0]
    ELSE [cause |-> out, status |-> AfterVendor(e, out).status, vendor |-> TRUE,
          charged |-> IF AfterVendor(e, out).charge THEN 1 ELSE 0]

ServeShared(p, u, e, input, out) ==
    LET us == UsageOf(p)
        response == ResponseOf(check_limit(us, now, limit, u), e, input, out)
        new == IF response.charged = 1 THEN increment_usage(us, now, u) ELSE us
    IN  /\ usage' = new
        /\ peer' = new
        /\ recorded' = IF response.charged = 1 THEN Recorded(u) ELSE recorded
        /\ served' = IF response.status = HTTP_200_OK THEN Served(u) ELSE served
        /\ last' = response
        /\ UNCHANGED <<video, admittedOn, limit, now, call, dayFixed, pending>>

\* process p handles a request of u for endpoint e from its gate to its end,
\* with no other request of either process in between
Serve(p, u, e, input, out) ==
    LET us == UsageOf(p)
        response == ResponseOf(check_limit(us, now, limit, u), e, input, out)
        new == IF response.charged = 1 THEN increment_usage(us, now, u) ELSE us
    IN  /\ usage' = IF p = 1 THEN new ELSE usage
        /\ peer' = IF p = 2 THEN new ELSE peer
        /\ recorded' = IF response.charged = 1 THEN Recorded(u) ELSE recorded
        /\ served' = IF response.status = HTTP_200_OK THEN Served(u) ELSE served
        /\ last' = response
        /\ UNCHANGED <<video, admittedOn, limit, now, call, dayFixed, pending>>

\* how a request to endpoint e can go: refused before the vendor call (the
\* chain then hands back nothing), or valid with one of the chain's outcomes
RequestCases(e) ==
    {<<input, "none">> : input \in Inputs(e) \ {"valid"}}
        \cup {<<"valid", out>> : out \in Outcomes(e)}

NextWorkers ==
    \/ \E p \in Workers, u \in Callers, e \in Endpoints :
            \E c \in RequestCases(e) : Serve(p, u, e, c[1], c[2])
    \/ ClockAdvance
    \/ ClockBackward

SpecWorkers == Init /\ [][NextWorkers]_vars

\* ------------------------------------- the image, video and music endpoints
\* The generating endpoints of app/api/v1/images.py, videos.py and music.py
\* depend on CurrentUser and on their service only, not on check_ai_rate_limit:
\*     (validate the upload); response = await service.generate_...(...)
\* inside  try ... except RuntimeError: raise 503 / except Exception: raise 500.
\* They read and write nothing of RateLimitService.
UngatedEndpoints ==
    {"image_generate", "image_edit", "video_generate", "video_from_image",
     "music_generate", "music_simple"}

\* how such a request goes: the upload is refused, the vendor client was never
\* initialised (no API key), the vendor call raises, or it returns
UngatedOutcomes(e) ==
    {"raises", "ok"}
        \cup (IF e \in {"image_edit", "video_from_image", "music_simple"}
              THEN {"bad_upload"} ELSE {})
        \cup (IF e \in {"image_generate", "image_edit"} THEN {} ELSE {"unavailable"})

\* whether the vendor call is made, and the status the handler ends with
AfterUngated(e, out) ==
    CASE out = "bad_upload" -> [vendor |-> FALSE, status |-> HTTP_400_BAD_REQUEST]
      [] out = "unavailable" ->
            [vendor |-> FALSE, status |-> HTTP_503_SERVICE_UNAVAILABLE]
      [] out = "raises" -> [vendor |-> TRUE, status |-> HTTP_500_INTERNAL_SERVER_ERROR]
      [] OTHER -> [vendor |-> TRUE, status |-> HTTP_200_OK]

\* a request of u for an image, video or music endpoint, from arrival to response
UngatedRequest(u, e, out) ==
    /\ last' = [cause |-> e, status |-> AfterUngated(e, out).status,
                vendor |-> AfterUngated(e, out).vendor, charged |-> 0]
    /\ UNCHANGED <<video, admittedOn, limit, usage, now, call, dayFixed, recorded, served, peer, pending>>

NextAi ==
    \/ NextApi
    \/ \E u \in Callers, e \in UngatedEndpoints :
            \E out \in UngatedOutcomes(e) : UngatedRequest(u, e, out)

SpecAi == Init /\ [][NextAi]_vars

\* ----------------------------------------------------------- VideoService
\* the values str(id(operation)) can take, and the ids a client may poll
OpIds == {"op1", "op2"}
PollIds == OpIds \cup {"non-existent-id"}

\* what the vendor does when an operation is polled: operations.get raises, or
\* returns the operation not done, or done with a video that cannot be
\* retrieved, or done with a video of no bytes or of some bytes
VendorSays == {"get_raises", "not_done", "retrieval_fails", "retrieved_empty", "retrieved"}

\* VideoOperationStatusResponse, with whether the id was in the table and
\* whether the vendor was called
StatusResponse(id, found, vendor, done, status, error, bytes) ==
    [id |-> id, found |-> found, vendor |-> vendor, done |-> done,
     status |-> status, error |-> error, video |-> bytes]

get_operation_status_refreshing_first(ops, id, says) ==
    [ops |-> ops,
     response |-> StatusResponse(id, id \in DOMAIN ops, TRUE, FALSE, "FAILED",
                                 "Operation not found", "none")]

\* VideoService.get_operation_status: the table after the call and the response
get_operation_status(ops, id, says) ==
    IF id \notin DOMAIN ops
    THEN [ops |-> ops,
          response |-> StatusResponse(id, FALSE, FALSE, FALSE, "FAILED",
                                      "Operation not found", "none")]
    ELSE CASE says = "get_raises" ->
                [ops |-> ops,
                 response |-> StatusResponse(id, TRUE, TRUE, FALSE, "FAILED",
                                             "vendor error", "none")]
           [] says = "not_done" ->
                [ops |-> [ops EXCEPT ![id] = "running"],
                 response |-> StatusResponse(id, TRUE, TRUE, FALSE, "PROCESSING",
                                             "none", "none")]
           [] says = "retrieval_fails" ->
                [ops |-> [ops EXCEPT ![id] = "done"],
                 response |-> StatusResponse(id, TRUE, TRUE, TRUE, "FAILED",
                                             "vendor error", "none")]
           [] says = "retrieved_empty" ->
                [ops |-> [k \in DOMAIN ops \ {id} |-> ops[k]],
                 response |-> StatusResponse(id, TRUE, TRUE, TRUE, "COMPLETED",
                                             "none", "")]
           [] OTHER ->
                [ops |-> [k \in DOMAIN ops \ {id} |-> ops[k]],
                 response |-> StatusResponse(id, TRUE, TRUE, TRUE, "COMPLETED",
                                             "none", "bytes")]

\* how a poll of id can go: the vendor is asked only about an id in the table
PollCases(ops, id) == IF id \in DOMAIN ops THEN VendorSays ELSE {"not_asked"}

\* VideoService.generate_video / generate_video_from_image: the vendor call
\* raises (or there is no client), or it returns an operation that is stored
\* under str(id(operation)), an id no operation still stored has
GenerateVideo(id, started) ==
    /\ started => id \notin DOMAIN operations
    /\ operations' = IF started
                     THEN [k \in DOMAIN operations \cup {id} |->
                              IF k = id THEN "started" ELSE operations[k]]
                     ELSE operations
    /\ poll' = NoPoll
    /\ UNCHANGED <<quota, sync, delivered>>

\* history: the ids delivered once a poll has answered `response`
Delivered(response) ==
    IF response.status = "COMPLETED" THEN delivered \cup {response.id} ELSE delivered

\* a call of VideoService.get_operation_status (GET /status/{operation_id})
GetOperationStatus(id, says) ==
    LET r == get_operation_status(operations, id, says) IN
    /\ operations' = r.ops
    /\ poll' = r.response
    /\ delivered' = Delivered(r.response)
    /\ UNCHANGED <<quota, sync>>

LoopFrom_ending_on_failed(sy, ops, says) ==
    IF sy.elapsed < sy.timeout
    THEN LET r == get_operation_status(ops, sy.id, says)
             ends == IF r.response.status = "COMPLETED" /\ r.response.video # ""
                     THEN "returned" ELSE "raised"
         IN  [operations |-> r.ops,
              poll |-> r.response,
              sync |-> [sy EXCEPT !.polls = @ + 1,
                                  !.pc = IF r.response.done \/ r.response.status = "FAILED"
                                         THEN ends ELSE "sleeping"]]
    ELSE [operations |-> ops, poll |-> NoPoll,
          sync |-> [sy EXCEPT !.pc = "timed_out"]]

\* generate_video_sync from its loop test to its next suspension or its end:
\*     while elapsed < timeout_seconds: status = await get_operation_status(id)
\*         if status.done: return bytes / raise Exception
\*         await asyncio.sleep(poll_interval)
\*     raise TimeoutError
LoopFrom(sy, ops, says) ==
    IF sy.elapsed < sy.timeout
    THEN LET r == get_operation_status(ops, sy.id, says)
             ends == IF r.response.status = "COMPLETED" /\ r.response.video # ""
                     THEN "returned" ELSE "raised"
         IN  [operations |-> r.ops,
              poll |-> r.response,
              sync |-> [sy EXCEPT !.polls = @ + 1,
                                  !.pc = IF r.response.done THEN ends ELSE "sleeping"]]
    ELSE [operations |-> ops, poll |-> NoPoll,
          sync |-> [sy EXCEPT !.pc = "timed_out"]]

\* generate_video_sync is called: generate_video, then the loop up to the
\* first sleep (neither await before it suspends the coroutine)
SyncStart(timeout, interval, id, started, says) ==
    /\ sync.pc = "idle"
    /\ started => id \notin DOMAIN operations
    /\ IF ~started
       THEN /\ sync' = [sync EXCEPT !.pc = "start_failed", !.timeout = timeout,
                                    !.interval = interval]
            /\ poll' = NoPoll
            /\ operations' = operations
            /\ delivered' = delivered
       ELSE LET stored == [k \in DOMAIN operations \cup {id} |->
                              IF k = id THEN "started" ELSE operations[k]]
                entered == [pc |-> "polling", id |-> id, timeout |-> timeout,
                            interval |-> interval, elapsed |-> 0, polls |-> 0]
                after == LoopFrom(entered, stored, says)
            IN  /\ sync' = after.sync
                /\ poll' = after.poll
                /\ operations' = after.operations
                /\ delivered' = Delivered(after.poll)
    /\ UNCHANGED quota

\* asyncio.sleep(poll_interval) returns: elapsed += poll_interval, then the
\* loop up to the next sleep
SyncWake(says) ==
    /\ sync.pc = "sleeping"
    /\ LET after == LoopFrom([sync EXCEPT !.elapsed = @ + sync.interval,
                                          !.pc = "polling"],
                             operations, says)
       IN  /\ sync' = after.sync
           /\ poll' = after.poll
           /\ operations' = after.operations
           /\ delivered' = Delivered(after.poll)
    /\ UNCHANGED quota

\* RateLimitService as constructed, at one instant: VideoService does not use it
InitVideo ==
    /\ Init
    /\ limit = MaxLimit
    /\ now = 0

NextVideo ==
    \/ \E id \in OpIds, started \in BOOLEAN : GenerateVideo(id, started)
    \/ \E id \in PollIds : \E says \in PollCases(operations, id) :
            GetOperationStatus(id, says)
    \/ \E timeout \in 0..MaxTimeout, interval \in 1..MaxInterval, id \in OpIds,
          started \in BOOLEAN, says \in VendorSays :
            SyncStart(timeout, interval, id, started, says)
    \/ \E says \in VendorSays : SyncWake(says)

SpecVideo == InitVideo /\ [][NextVideo]_vars

\* a sleeping generate_video_sync is resumed when its sleep is over
SpecVideoFair == SpecVideo /\ WF_vars(\E says \in VendorSays : SyncWake(says))

\* ---------------------------------------------------------------- claims
Today == get_today_str(now)
Allowed(u) == check_limit(usage, now, limit, u)
Remaining(u) == get_remaining_requests(usage, now, limit, u)

\* C1: for a principal that has no entry in the usage map, check_limit returns
\* true when the limit is > 0 and false when the limit is 0.
C1_FreshPrincipalAdmission ==
    (call.op = "check_limit" /\ call.user \notin DOMAIN usage)
        => (call.allowed <=> limit > 0)

\* C2: on one clock day, for a principal that started with no usage, after N
\* increment_usage calls with N <= limit, get_remaining_requests returns
\* limit - N and check_limit returns true exactly when N < limit.
C2_MonotonicConsumption ==
    \A u \in Users :
        (dayFixed /\ recorded[u] <= limit /\ call.user = u)
            => /\ call.op = "get_remaining_requests"
                    => call.remaining = limit - recorded[u]
               /\ call.op = "check_limit"
                    => (call.allowed <=> recorded[u] < limit)

\* C2, for a limit of at least 1 (the part of C2 the code keeps).
C2_ForPositiveLimit == limit >= 1 => C2_MonotonicConsumption

\* C3: on one clock day, once a principal has limit or more increment_usage
\* calls, check_limit returns false and get_remaining_requests returns 0.
C3_ExactBoundary ==
    \A u \in Users :
        (dayFixed /\ recorded[u] >= limit /\ call.user = u)
            => /\ call.op = "check_limit" => ~call.allowed
               /\ call.op = "get_remaining_requests" => call.remaining = 0

\* C3, for a limit of at least 1 (the part of C3 the code keeps).
C3_ForPositiveLimit == limit >= 1 => C3_ExactBoundary

\* C4: a principal whose entry is still (D, limit) when the clock reports day
\* D + 1 is allowed by check_limit and has the full limit remaining.
C4_DayRolloverResets ==
    \A u \in DOMAIN usage :
        (usage[u] = <<Today - 1, limit>>)
            => /\ Allowed(u)
               /\ Remaining(u) = limit
               /\ (call.user = u /\ call.op = "check_limit") => call.allowed
               /\ (call.user = u /\ call.op = "get_remaining_requests")
                    => call.remaining = limit

C4_Witness ==
    /\ call.op = "check_limit"
    /\ call.user \in DOMAIN usage
    /\ usage[call.user] = <<Today - 1, limit>>
    /\ call.allowed

\* C5: check_limit and get_remaining_requests leave the usage map unchanged,
\* and with it every principal's remaining quota; only increment_usage writes
\* the map.
C5_ReadsDoNotWrite ==
    [][ /\ (\E u \in Users : CheckLimit(u) \/ GetRemainingRequests(u))
            => /\ usage' = usage
               /\ \A v \in Users :
                    get_remaining_requests(usage', now', limit', v) = Remaining(v)
        /\ usage' # usage => \E u \in Users : IncrementUsage(u) ]_vars

C5_Witness ==
    /\ call.op = "check_limit"
    /\ call.user \notin DOMAIN usage
    /\ usage # EmptyUsage

\* C6: increment_usage(A) leaves the entry of every other principal B as it
\* was (absent or unchanged), and with it check_limit(B) and
\* get_remaining_requests(B).
C6_PrincipalsIndependent ==
    [][ \A a \in Users : IncrementUsage(a) =>
            \A b \in Users \ {a} :
                /\ (b \in DOMAIN usage') <=> (b \in DOMAIN usage)
                /\ EntryOf(usage', b) = EntryOf(usage, b)
                /\ check_limit(usage', now', limit', b) = Allowed(b)
                /\ get_remaining_requests(usage', now', limit', b) = Remaining(b)
      ]_vars

C6_Witness ==
    /\ call.op = "increment_usage"
    /\ limit = 2
    /\ \E b \in DOMAIN usage \ {call.user} :
        /\ usage[b] = <<Today, 1>>
        /\ Allowed(b)
        /\ ~Allowed(call.user)

\* C7: with the limit configured as 0, check_limit returns false for every
\* principal in every reachable state.
C7_ZeroLimitDeniesAll ==
    (limit = 0 /\ call.op = "check_limit") => ~call.allowed

\* C8: increment_usage(u) on day d leaves u's entry (d, 1) if u had no entry or
\* an entry of another day, and (d, c + 1) if u's entry was (d, c).
C8_IncrementWrites ==
    [][ \A u \in Users : IncrementUsage(u) =>
            usage'[u] = IF u \notin DOMAIN usage \/ usage[u][1] # Today
                        THEN <<Today, 1>>
                        ELSE <<Today, usage[u][2] + 1>> ]_vars

C8_Witness ==
    /\ call.op = "increment_usage"
    /\ call.prior # NoEntry
    /\ call.prior[1] # Today
    /\ call.prior[2] > 1
    /\ usage[call.user] = <<Today, 1>>

\* C9: a request that check_limit denies at the gate ends with 429, calls
\* neither the vendor chain nor increment_usage, and leaves the usage map as it
\* was.
C9_RejectedBeforeVendor ==
    [][ \A u \in Callers, e \in Endpoints :
            \A input \in Inputs(e) : (Request(u, e, input) /\ Denied(u)) =>
                /\ usage' = usage
                /\ pending' = pending
                /\ last'.status = HTTP_429_TOO_MANY_REQUESTS
                /\ ~last'.vendor
                /\ last'.charged = 0 ]_vars

C9_Witness ==
    /\ last.status = HTTP_429_TOO_MANY_REQUESTS
    /\ Denied("a")
    /\ usage["a"] = <<Today, limit>>
    /\ InFlight > 0

\* C10: a request that ended in anything but a successful response has not
\* called increment_usage.
C10_ChargedOnlyOnSuccess ==
    (last.cause # "none" /\ last.status # HTTP_200_OK) => last.charged = 0

\* C10, for the failures it lists (the part of C10 the code keeps): a request
\* that failed validation, whose chain could not be built or raised or returned
\* an empty or unparseable text, or that was cancelled, has not called
\* increment_usage.
C10_ListedFailuresNotCharged ==
    last.cause \in {"too_long", "bad_mode", "chain_error", "raises", "empty",
                    "unparseable", "cancelled"} => last.charged = 0

\* C11 as stated, under a limit >= 1: every request that passed the gate, made
\* its vendor call and has ended was charged by exactly one increment_usage
\* call, whether or not it succeeded.
C11_ExactlyOneIncrement ==
    (limit >= 1 /\ last.vendor) => last.charged = 1

\* C11: every request admitted by the gate leads to at most one increment_usage
\* call for its principal: exactly one when it ends in a 200 response, none
\* when it is refused before the vendor call, when the vendor call raises or
\* returns an empty or unparseable text, or when it is cancelled.
C11_AtMostOneIncrement ==
    [][\A u \in Callers, e \in Endpoints :
        /\ \A input \in Inputs(e) : Request(u, e, input) => usage' = usage
        /\ Cancel(u, e) => usage' = usage
        /\ \A out \in Outcomes(e) : VendorReturn(u, e, out) =>
            /\ usage' \in {usage, increment_usage(usage, now, u)}
            /\ last'.status = HTTP_200_OK =>
                    (usage' = increment_usage(usage, now, u) /\ last'.charged = 1)
            /\ out \in {"raises", "empty", "unparseable"} =>
                    (usage' = usage /\ last'.charged = 0)]_vars

\* an admittedOn request whose vendor call raised ends uncharged, after an
\* earlier request of the same principal was charged
C11_Witness ==
    /\ last.cause = "raises"
    /\ last.charged = 0
    /\ "a" \in DOMAIN usage
    /\ served["a"] >= 1

\* C12: every AI endpoint (text, image, video, music) consults the gate before
\* its vendor call: while check_limit is false for a principal (limit >= 1), no
\* step makes a vendor call for that principal.
C12_EveryEndpointGated ==
    [][\A u \in Callers : (limit >= 1 /\ Denied(u)) =>
        /\ \A e \in Endpoints : pending'[<<u, e>>] <= pending[<<u, e>>]
        /\ \A e \in UngatedEndpoints : \A out \in UngatedOutcomes(e) :
                UngatedRequest(u, e, out) => ~last'.vendor]_vars

\* C13: requests of one principal handled one after another on one day with
\* limit >= 1: the stored same-day count never exceeds the limit, and a request
\* is rejected with 429 exactly when limit successful requests came before it.
C13_SequentialEnforcement ==
    [][\A u \in Callers : (limit >= 1 /\ dayFixed) =>
        /\ u \in DOMAIN usage => usage[u][2] <= limit
        /\ \A e \in Endpoints : \A input \in Inputs(e) :
                SeqRequest(u, e, input) =>
                    (last'.status = HTTP_429_TOO_MANY_REQUESTS <=> served[u] >= limit)]_vars

\* the same with the charged requests in place of the successful ones (they
\* differ by the moderation requests of C10)
C13_ChargedRequestsEnforced ==
    [][\A u \in Callers : (limit >= 1 /\ dayFixed) =>
        /\ u \in DOMAIN usage => usage[u][2] <= limit
        /\ \A e \in Endpoints : \A input \in Inputs(e) :
                SeqRequest(u, e, input) =>
                    (last'.status = HTTP_429_TOO_MANY_REQUESTS <=> recorded[u] >= limit)]_vars

\* C14: the check-then-act race is reachable (C14_Witness), and it is the only
\* way above the limit: under a limit >= 1, a step that stores a same-day count
\* above the limit is the increment of a request that passed the gate earlier
\* and was suspended at its vendor call, made when the gate denies its principal.
C14_OvershootByStaleAdmission ==
    [][\A u \in Callers :
        (/\ limit >= 1
         /\ usage' # usage
         /\ u \in DOMAIN usage'
         /\ usage'[u][2] > limit)
        => /\ Denied(u)
           /\ \E e \in Endpoints : pending'[<<u, e>>] = pending[<<u, e>>] - 1
           /\ usage' = increment_usage(usage, now, u)]_vars

\* limit = 1 and one day: two requests, both answered 200, so both passed the
\* gate at the stored count 0 = limit - 1, have left the count at limit + 1
C14_Witness ==
    /\ limit = 1
    /\ dayFixed
    /\ served["a"] = 2
    /\ "a" \in DOMAIN usage
    /\ usage["a"] = <<Today, limit + 1>>
    /\ last.status = HTTP_200_OK

C15_UnderClockCorrection ==
    limit >= 1 =>
        \A u \in DOMAIN usage : usage[u][2] <= limit + MaxReqs - 1

\* C16: with two processes, each with its own RateLimitService, a request
\* handled by one process leaves the map of the other, and so its check_limit
\* and get_remaining_requests for every user, as they were; on one day a
\* principal can complete 2 x limit successful non-overlapping requests
\* (C16_Witness), and no more.
C16_ProcessesIndependent ==
    [][/\ \A p \in Workers, u \in Callers, e \in Endpoints :
            \A c \in RequestCases(e) :
                Serve(p, u, e, c[1], c[2]) =>
                    LET other == IF p = 1 THEN peer ELSE usage
                        other_after == IF p = 1 THEN peer' ELSE usage'
                    IN  /\ other_after = other
                        /\ \A v \in Users :
                            /\ check_limit(other_after, now', limit', v)
                                    = check_limit(other, now, limit, v)
                            /\ get_remaining_requests(other_after, now', limit', v)
                                    = get_remaining_requests(other, now, limit, v)
       /\ (limit >= 1 /\ dayFixed) =>
            \A u \in Callers : served[u] <= Cardinality(Workers) * limit]_vars

\* one principal has been answered 200 for 2 x limit requests on one day, half
\* of them charged to each process
C16_Witness ==
    /\ limit = MaxLimit
    /\ dayFixed
    /\ served["a"] = Cardinality(Workers) * limit
    /\ usage = [u \in {"a"} |-> <<Today, limit>>]
    /\ peer = usage

\* C17: when the clock has moved backward, so that today is earlier than the
\* day stored for a principal, the entry is not taken for today's: check_limit
\* returns true, get_remaining_requests returns the full limit, and the next
\* increment_usage overwrites the entry with (today, 1).
C17_BackwardClockIsFresh ==
    /\ \A u \in DOMAIN usage :
            usage[u][1] > Today =>
                /\ Allowed(u)
                /\ Remaining(u) = limit
                /\ increment_usage(usage, now, u)[u] = <<Today, 1>>
    /\ (call.op = "check_limit" /\ EntryOf(usage, call.user)[1] > Today)
            => call.allowed
    /\ (call.op = "get_remaining_requests" /\ EntryOf(usage, call.user)[1] > Today)
            => call.remaining = limit
    /\ (call.op = "increment_usage" /\ call.prior[1] > Today)
            => usage[call.user] = <<Today, 1>>

\* increment_usage has just overwritten an entry of a later day that was at or
\* above the limit
C17_Witness ==
    /\ call.op = "increment_usage"
    /\ call.prior[1] > Today
    /\ call.prior[2] >= limit
    /\ limit >= 1
    /\ usage[call.user] = <<Today, 1>>

\* C18: a gated request ends in 429 if and only if check_limit returned false
\* for its principal at the gate; a denied request gets no other status, and a
\* request that passed the gate never ends in 429 later in its handler.
C18_DenialIs429 ==
    [][\A u \in Callers, e \in Endpoints :
        /\ \A input \in Inputs(e) :
                Request(u, e, input) =>
                    /\ Denied(u) <=> last'.status = HTTP_429_TOO_MANY_REQUESTS
                    /\ Denied(u) <=> last'.cause = "rate_limited"
        /\ \A out \in Outcomes(e) :
                VendorReturn(u, e, out) => last'.status # HTTP_429_TOO_MANY_REQUESTS
        /\ Cancel(u, e) => last'.status # HTTP_429_TOO_MANY_REQUESTS]_vars

\* a request arriving after two were charged under limit 2 has been answered 429
C18_Witness ==
    /\ last.cause = "rate_limited"
    /\ last.status = HTTP_429_TOO_MANY_REQUESTS
    /\ limit = MaxLimit
    /\ recorded["a"] >= limit
    /\ Denied("a")

\* C19 as stated, for every limit: a principal is Fresh while
\* get_remaining_requests = limit and Active while it is < limit. It is Active
\* after every increment_usage, it leaves Fresh only by an increment_usage
\* that stores (today, 1), and while the clock day is unchanged its remaining
\* quota never increases, so only a change of day makes it Fresh again.
C19_FreshActiveCycle ==
    [][\A u \in Users :
        /\ IncrementUsage(u) => Remaining(u)' < limit
        /\ (Remaining(u) = limit /\ Remaining(u)' < limit) =>
                (IncrementUsage(u) /\ usage'[u] = <<Today, 1>>)
        /\ Today' = Today => Remaining(u)' <= Remaining(u)
        /\ (Remaining(u) < limit /\ Remaining(u)' = limit) => Today' # Today]_vars

\* C19: for a limit >= 1 and while the clock day is unchanged, a principal
\* leaves Fresh only by an increment_usage that stores (today, 1), is Active
\* after every increment_usage, and its remaining quota never increases; only
\* a change of the clock day makes it Fresh again.
C19_ForPositiveLimit ==
    [][limit >= 1 =>
        \A u \in Users :
            /\ IncrementUsage(u) => Remaining(u)' < limit
            /\ (Today' = Today /\ Remaining(u) = limit /\ Remaining(u)' < limit) =>
                    (IncrementUsage(u) /\ usage'[u] = <<Today, 1>>)
            /\ Today' = Today => Remaining(u)' <= Remaining(u)
            /\ (Remaining(u) < limit /\ Remaining(u)' = limit) => Today' # Today]_vars

\* a principal that was Active yesterday and Fresh since the day changed has
\* just become Active again by its first increment_usage of the day
C19_Witness ==
    /\ limit >= 1
    /\ call.op = "increment_usage"
    /\ call.prior[1] >= 0
    /\ call.prior[1] < Today
    /\ usage[call.user] = <<Today, 1>>
    /\ Remaining(call.user) = limit - 1

\* C20: increment_usage has no admission check: it can be called for a
\* principal whose same-day count is already >= limit, and then it still
\* stores that count plus 1, above the limit.
C20_IncrementIgnoresLimit ==
    /\ \A u \in DOMAIN usage :
            (usage[u][1] = Today /\ usage[u][2] >= limit) =>
                /\ increment_usage(usage, now, u)[u] = <<Today, usage[u][2] + 1>>
                /\ CanIncrement(u) => ENABLED IncrementUsage(u)
    /\ (/\ call.op = "increment_usage"
        /\ call.prior[1] = Today
        /\ call.prior[2] >= limit)
            => /\ usage[call.user] = <<Today, call.prior[2] + 1>>
               /\ usage[call.user][2] > limit

\* increment_usage has just pushed a count that was at the limit above it
C20_Witness ==
    /\ limit >= 1
    /\ call.op = "increment_usage"
    /\ call.prior = <<Today, limit>>
    /\ usage[call.user] = <<Today, limit + 1>>
    /\ ~Allowed(call.user)

\* C21: get_remaining_requests returns the full limit for a principal with no
\* entry or an entry of another day, and max(0, limit - count) otherwise, so
\* for every limit >= 0 and every principal it lies in 0..limit.
C21_RemainingWithinLimit ==
    /\ \A u \in Users :
        /\ Remaining(u) >= 0
        /\ Remaining(u) <= limit
        /\ (u \notin DOMAIN usage \/ EntryOf(usage, u)[1] # Today) => Remaining(u) = limit
        /\ (u \in DOMAIN usage /\ EntryOf(usage, u)[1] = Today) =>
                Remaining(u) = (IF usage[u][2] >= limit THEN 0 ELSE limit - usage[u][2])
    /\ call.op = "get_remaining_requests" =>
            (call.remaining \in 0..limit /\ call.remaining = Remaining(call.user))

\* get_remaining_requests has just returned 0 for a principal whose same-day
\* count is above the limit
C21_Witness ==
    /\ call.op = "get_remaining_requests"
    /\ call.user \in DOMAIN usage
    /\ usage[call.user][1] = Today
    /\ usage[call.user][2] > limit
    /\ limit >= 1
    /\ call.remaining = 0

\* C22: no usage record is ever destroyed: whatever the step (a call of any of
\* the three methods, a day change), every principal in the usage map before
\* the step is in it after the step.
C22_EntriesNeverRemoved ==
    [][DOMAIN usage \subseteq DOMAIN usage']_vars

\* both principals have an entry, one of an earlier day than the other's,
\* and the older one has just been read
C22_Witness ==
    /\ DOMAIN usage = Users
    /\ usage["b"][1] < Today
    /\ usage["a"][1] = Today
    /\ call.op = "check_limit"
    /\ call.user = "b"

\* C23 as stated: after a check_limit call for a never-seen principal the usage
\* map contains an entry for that principal.
C23_CheckLimitCreatesEntry ==
    call.op = "check_limit" => call.user \in DOMAIN usage

\* C23: a usage record is created by the first increment_usage for an unseen
\* principal and by nothing else: check_limit (and get_remaining_requests) for
\* a principal without an entry leaves it without one, increment_usage gives
\* it the entry (today, 1).
C23_OnlyIncrementCreatesEntry ==
    [][\A u \in Users :
        u \notin DOMAIN usage =>
            /\ CheckLimit(u) => u \notin DOMAIN usage'
            /\ GetRemainingRequests(u) => u \notin DOMAIN usage'
            /\ IncrementUsage(u) => usage'[u] = <<Today, 1>>
            /\ u \in DOMAIN usage' => IncrementUsage(u)]_vars

\* the map is still empty right after check_limit admittedOn a never-seen
\* principal under a positive limit
C23_Witness ==
    /\ call.op = "check_limit"
    /\ call.user = "b"
    /\ call.allowed
    /\ limit >= 1
    /\ usage = EmptyUsage

\* C24: get_operation_status called with an operation id that is not in the
\* operation table returns done = false, status FAILED and the error message
\* "Operation not found", makes no vendor call and leaves the table unchanged.
C24_UnknownOperation ==
    [][\A id \in PollIds :
        id \notin DOMAIN operations =>
            \A says \in PollCases(operations, id) :
                GetOperationStatus(id, says) =>
                    /\ ~poll'.done
                    /\ poll'.status = "FAILED"
                    /\ poll'.error = "Operation not found"
                    /\ ~poll'.vendor
                    /\ operations' = operations]_vars

\* an id that was never issued has been polled while another operation is stored
C24_Witness ==
    /\ poll.id = "non-existent-id"
    /\ ~poll.found
    /\ ~poll.vendor
    /\ poll.error = "Operation not found"
    /\ operations # NoOperations

\* C25: for limit >= 1, in every reachable state and for every principal,
\* check_limit returns true if and only if get_remaining_requests returns a
\* value > 0.
C25_AdmissionAgreesWithRemaining ==
    limit >= 1 =>
        /\ \A u \in Users : Allowed(u) <=> Remaining(u) > 0
        /\ call.op = "check_limit" => (call.allowed <=> Remaining(call.user) > 0)
        /\ call.op = "get_remaining_requests" =>
                (call.remaining > 0 <=> Allowed(call.user))

\* check_limit has just denied a principal whose same-day count is above the
\* limit and whose remaining quota is 0
C25_Witness ==
    /\ limit >= 1
    /\ call.op = "check_limit"
    /\ ~call.allowed
    /\ usage[call.user][2] > limit
    /\ Remaining(call.user) = 0

\* C26: no usage is lost under interleaving within one process: while the day
\* has not changed since construction, the stored count of a principal equals
\* the number of increment_usage calls made for it, and on any day a charged
\* request adds exactly 1 to a same-day count (or starts the day at 1),
\* however the requests in flight interleave.
C26_NoLostUsage ==
    [][/\ dayFixed' => \A u \in Users : EntryOf(usage', u)[2] = recorded'[u]
       /\ \A u \in Callers, e \in Endpoints : \A out \in Outcomes(e) :
            (VendorReturn(u, e, out) /\ last'.charged = 1) =>
                usage'[u] = (IF EntryOf(usage, u)[1] = Today
                             THEN <<Today, usage[u][2] + 1>>
                             ELSE <<Today, 1>>)]_vars

\* on one day, requests that overlapped have all been counted: the stored
\* count is above the limit and equals the number of increment_usage calls
C26_Witness ==
    /\ limit = MaxLimit
    /\ dayFixed
    /\ recorded["a"] = limit + 1
    /\ "a" \in DOMAIN usage
    /\ usage["a"][2] = recorded["a"]

\* C27: usage is charged to the day on which increment_usage runs, not the day
\* of admission: when a request admittedOn on day D is charged after the clock
\* has moved to a later day, the entry becomes (today, 1), discarding the count
\* of an earlier day, or (today, c + 1) when today's count was already c.
C27_ChargedToIncrementDay ==
    [][\A u \in Callers, e \in Followed : \A out \in Outcomes(e) :
        (/\ VendorReturn(u, e, out)
         /\ last'.charged = 1
         /\ admittedOn[<<u, e>>] < Today)
        => /\ usage'[u][1] = Today
           /\ usage'[u][1] # admittedOn[<<u, e>>]
           /\ EntryOf(usage, u)[1] # Today => usage'[u] = <<Today, 1>>
           /\ EntryOf(usage, u)[1] = Today => usage'[u] = <<Today, usage[u][2] + 1>>]_vars

\* the only two requests ever admittedOn passed the gate yesterday, and both
\* have been charged to today: (today, 1), then (today, 2)
C27_Witness ==
    /\ InFlight = 0
    /\ last.charged = 1
    /\ admittedOn[<<"a", "summarize">>] = Today - 1
    /\ admittedOn[<<"a", "qa">>] = Today - 1
    /\ admittedOn[<<"a", "rewrite">>] = -1
    /\ admittedOn[<<"a", "moderate">>] = -1
    /\ usage["a"] = <<Today, 2>>

\* C28: every entry of the usage map has a count >= 1, and a principal has an
\* entry only if increment_usage has been called for it: while the day has not
\* changed since construction, at least as often as its count says.
C28_CountAtLeastOne ==
    \A u \in DOMAIN usage :
        /\ usage[u][2] >= 1
        /\ dayFixed => (recorded[u] >= 1 /\ recorded[u] >= usage[u][2])

\* both principals have an entry, one of them fresh from its first
\* increment_usage and one left over from an earlier day
C28_Witness ==
    /\ DOMAIN usage = Users
    /\ call.op = "increment_usage"
    /\ call.prior = NoEntry
    /\ usage[call.user] = <<Today, 1>>
    /\ \E u \in Users : usage[u][1] < Today /\ usage[u][2] >= 1

\* C29: an operation id is in the table from generate_video on; a poll that
\* retrieves the video returns COMPLETED and removes the id; a poll that finds
\* the operation not done, or fails to reach the vendor or to retrieve the
\* video, keeps the id; and every poll of an id whose video was delivered
\* returns FAILED with "Operation not found".
C29_DeliveredAtMostOnce ==
    [][\A id \in OpIds :
        /\ GenerateVideo(id, TRUE) => id \in DOMAIN operations'
        /\ \A says \in PollCases(operations, id) :
            GetOperationStatus(id, says) =>
                /\ says \in {"retrieved", "retrieved_empty"} =>
                        (poll'.status = "COMPLETED" /\ id \notin DOMAIN operations')
                /\ says \in {"get_raises", "not_done", "retrieval_fails"} =>
                        (poll'.status # "COMPLETED" /\ id \in DOMAIN operations')
                /\ id \in delivered =>
                        (/\ ~poll'.found
                         /\ poll'.status = "FAILED"
                         /\ poll'.error = "Operation not found")]_vars

\* the same without its last part: the life of an id in the table
C29_TableLifecycle ==
    [][\A id \in OpIds :
        /\ GenerateVideo(id, TRUE) => id \in DOMAIN operations'
        /\ \A says \in PollCases(operations, id) :
            GetOperationStatus(id, says) =>
                /\ says \in {"retrieved", "retrieved_empty"} =>
                        (poll'.status = "COMPLETED" /\ id \notin DOMAIN operations')
                /\ says \in {"get_raises", "not_done", "retrieval_fails"} =>
                        (poll'.status # "COMPLETED" /\ id \in DOMAIN operations')]_vars

\* ceil(a / b) for b > 0
CeilDiv(a, b) == (a + b - 1) \div b

\* generate_video_sync has returned or raised
Ended == {"start_failed", "returned", "raised", "timed_out"}

\* a step of generate_video_sync in which it polled the operation's status
SyncPolled == sync'.polls = sync.polls + 1

\* C30 as stated: generate_video_sync always terminates; a poll reporting done
\* with status COMPLETED makes it return, a poll reporting done with any other
\* status makes it raise, a poll reporting done = false never ends the loop,
\* and it raises TimeoutError after at most ceil(timeout / interval) polls.
C30_ReturnsWhenCompleted ==
    /\ [][SyncPolled =>
            /\ (poll'.done /\ poll'.status = "COMPLETED") => sync'.pc = "returned"
            /\ (poll'.done /\ poll'.status # "COMPLETED") => sync'.pc = "raised"
            /\ ~poll'.done => sync'.pc = "sleeping"
            /\ sync'.polls <= CeilDiv(sync'.timeout, sync'.interval)]_vars
    /\ [][sync'.pc = "timed_out" =>
            sync'.polls <= CeilDiv(sync'.timeout, sync'.interval)]_vars
    /\ (sync.pc = "sleeping" ~> sync.pc \in Ended)

\* C30: generate_video_sync always terminates: an exception of generate_video
\* ends it before any poll; a poll reporting done with status COMPLETED and a
\* non-empty video makes it return that video; a poll reporting done otherwise
\* (another status, or COMPLETED with an empty video) makes it raise; a poll
\* reporting done = false, also with status FAILED, never ends the loop; and
\* without a done poll it raises TimeoutError after exactly
\* ceil(timeout / interval) polls.
C30_SyncTerminates ==
    /\ [][SyncPolled =>
            /\ sync.pc \in {"idle", "sleeping"}
            /\ (poll'.done /\ poll'.status = "COMPLETED" /\ poll'.video # "") =>
                    sync'.pc = "returned"
            /\ (poll'.done /\ ~(poll'.status = "COMPLETED" /\ poll'.video # "")) =>
                    sync'.pc = "raised"
            /\ ~poll'.done => sync'.pc = "sleeping"
            /\ sync'.polls <= CeilDiv(sync'.timeout, sync'.interval)]_vars
    /\ [][(sync'.pc # sync.pc /\ ~SyncPolled) =>
            \/ sync.pc = "idle" /\ sync'.pc = "start_failed" /\ sync'.polls = 0
            \/ /\ sync'.pc = "timed_out"
               /\ sync'.polls = CeilDiv(sync'.timeout, sync'.interval)]_vars
    /\ [][sync.pc \in Ended => sync' = sync]_vars
    /\ (sync.pc = "sleeping" ~> sync.pc \in Ended)

\* the second poll of generate_video_sync reported done with status COMPLETED
\* and an empty video, and the call raised
C30_Witness ==
    /\ sync.pc = "raised"
    /\ sync.polls = 2
    /\ poll.id = sync.id
    /\ poll.done
    /\ poll.status = "COMPLETED"
    /\ poll.video = ""

\* the call timed out after ceil(timeout / interval) polls, none of them done
C30_TimedOut ==
    /\ sync.pc = "timed_out"
    /\ sync.timeout = 3
    /\ sync.interval = 2
    /\ sync.polls = 2

====
